---- MODULE Spec2Model ----
(***************************************************************************)
(* Model of server.py: a socketserver.TCPServer on port 9999 whose request *)
(* handler, CrossOriginIsolatedHandler, is SimpleHTTPRequestHandler with   *)
(* end_headers overridden to add the two cross-origin isolation headers.   *)
(*                                                                         *)
(* The handler's inherited methods (parse_request, send_head, send_error,  *)
(* translate_path, send_header, ...) and the server loop (serve_forever)   *)
(* are modelled as CPython's http.server / socketserver execute them; each *)
(* definition names the inherited method it follows.                       *)
(***************************************************************************)
EXTENDS Integers, Sequences, FiniteSets, TLC

\* Number of client connections made during one run of the process.
MaxConns == 2

\* PORT = 9999
PORT == 9999

Conns == 1..MaxConns

COOP == "Cross-Origin-Opener-Policy"
COEP == "Cross-Origin-Embedder-Policy"

----------------------------------------------------------------------------
(* The file system the process runs in.  Paths are sequences of names.     *)

\* The serving root: the working directory at launch (os.getcwd()).
Root == <<"srv", "www">>

OutsideSecret == "root:x:0:0"

\* Regular files and their bytes.
Files ==
    (Root \o <<"index.html">>  :> "<h1>hi</h1>")
 @@ (Root \o <<"sub", "a.txt">> :> "sub-a")
 @@ (<<"etc", "passwd">>        :> OutsideSecret)

Dirs == { <<>>, <<"srv">>, Root, Root \o <<"sub">>, <<"etc">> }

\* Symbolic links (present only in a file system that has them).
Links(symlinks) ==
    IF symlinks THEN (Root \o <<"link">> :> <<"etc", "passwd">>)
    ELSE [p \in {} |-> <<>>]

Front(s) == SubSeq(s, 1, Len(s) - 1)

\* The kernel's path walk: ".." goes to the parent, a symbolic link is
\* followed.  The result is the real location of the name.
RECURSIVE OsWalk(_, _, _)
OsWalk(acc, comps, symlinks) ==
    IF comps = <<>> THEN acc
    ELSE LET w == Head(comps)
             nxt == IF w = ".." THEN (IF acc = <<>> THEN <<>> ELSE Front(acc))
                    ELSE IF w = "." THEN acc
                    ELSE Append(acc, w)
             real == IF nxt \in DOMAIN Links(symlinks)
                     THEN Links(symlinks)[nxt] ELSE nxt
         IN OsWalk(real, Tail(comps), symlinks)

RealPath(comps, symlinks) == OsWalk(<<>>, comps, symlinks)

\* os.path.isdir(path)
IsDir(fspath, symlinks) == RealPath(fspath.comps, symlinks) \in Dirs

\* os.path.isfile(path)
IsFile(comps, symlinks) == RealPath(comps, symlinks) \in DOMAIN Files

\* open(path, 'rb') succeeds: a regular file, and the name has no trailing "/".
CanOpen(fspath, symlinks) ==
    ~fspath.slash /\ RealPath(fspath.comps, symlinks) \in DOMAIN Files

ReadFile(comps, symlinks) == Files[RealPath(comps, symlinks)]

----------------------------------------------------------------------------
(* Requests.  A request line is its list of whitespace-separated words;    *)
(* the path word is a record: leading "/" (abs), components, trailing "/". *)

Path(abs, comps, slash) == [abs |-> abs, comps |-> comps, slash |-> slash]

PIndex     == Path(TRUE,  <<"index.html">>, FALSE)
PMissing   == Path(TRUE,  <<"missing">>, FALSE)
PTravAbs   == Path(TRUE,  <<"..", "..", "etc", "passwd">>, FALSE)
PTravRel   == Path(FALSE, <<"..", "..", "etc", "passwd">>, FALSE)
PSub       == Path(TRUE,  <<"sub">>, FALSE)
PSubSlash  == Path(TRUE,  <<"sub">>, TRUE)
PSubFile   == Path(TRUE,  <<"sub", "a.txt">>, FALSE)
PRoot      == Path(TRUE,  <<>>, TRUE)
PLink      == Path(TRUE,  <<"link">>, FALSE)
PFileSlash == Path(TRUE,  <<"index.html">>, TRUE)
PDotDot    == Path(TRUE,  <<"sub", "..", "index.html">>, FALSE)

Paths == { PIndex, PMissing, PTravAbs, PTravRel, PSub, PSubSlash, PSubFile,
           PRoot, PLink, PFileSlash, PDotDot }

Req(kind, words, ims) == [kind |-> kind, words |-> words, ims |-> ims]

NoReq == Req("none", <<>>, FALSE)

\* What a client may send on one connection.  ims: the request carries an
\* If-Modified-Since header (and no If-None-Match) whose time is not before
\* the file's modification time.
Requests ==
       { Req("line", <<"GET", p, "HTTP/1.1">>, FALSE) : p \in Paths }
  \cup { Req("line", <<"GET", p, "HTTP/1.1">>, TRUE) : p \in {PIndex, PMissing} }
  \cup { Req("line", <<"GET", p>>, FALSE) : p \in {PIndex, PMissing, PTravRel} }
  \cup { Req("line", <<"HEAD", p, "HTTP/1.0">>, FALSE) : p \in {PIndex, PMissing, PSubSlash} }
  \cup { Req("line", <<"POST", p, "HTTP/1.1">>, FALSE) : p \in {PIndex, PMissing} }
  \cup { Req("line", <<"POST", PIndex>>, FALSE),
         Req("line", <<>>, FALSE),
         Req("line", <<"GET">>, FALSE),
         Req("line", <<"GET", PIndex, "x", "HTTP/1.1">>, FALSE),
         Req("line", <<"GET", PIndex, "FOO/1.1">>, FALSE),
         Req("line", <<"GET", PIndex, "HTTP/2.0">>, FALSE),
         Req("eof", <<>>, FALSE),
         Req("toolong", <<>>, FALSE) }

----------------------------------------------------------------------------
(* The request handler.  h is the handler object of one connection.        *)

Line(name, value) == [name |-> name, value |-> value]

HeadItem(lines) == [kind |-> "head", lines |-> lines, data |-> ""]
BodyItem(data)  == [kind |-> "body", lines |-> <<>>, data |-> data]

\* A connection nobody has made yet.
FreshConn ==
    [st |-> "none", pc |-> "-", ehpos |-> 0, req |-> NoReq,
     request_version |-> "", command |-> "", close_connection |-> TRUE,
     hdrbuf |-> <<>>, pending |-> "", wire |-> <<>>, aborted |-> FALSE]

\* A connection that broke before its handler finished: the handler object is
\* discarded and the client has received nothing it can use.
BrokenConn == [FreshConn EXCEPT !.st = "closed", !.aborted = TRUE]

\* BaseHTTPRequestHandler.send_response_only: the status line goes to the
\* headers buffer, unless the request is an HTTP/0.9 one.
send_response_only(h, code) ==
    IF h.request_version # "HTTP/0.9"
    THEN [h EXCEPT !.hdrbuf = Append(@, Line(":status", ToString(code)))]
    ELSE h

\* Variant: the header replaces what is pending instead of joining it.
send_header_replacing(h, keyword, value) ==
    IF h.request_version # "HTTP/0.9"
    THEN [h EXCEPT !.hdrbuf = <<Line(keyword, value)>>]
    ELSE h

\* BaseHTTPRequestHandler.send_header, as called on lines 8 and 9: the header
\* is appended to the headers buffer, unless the request is an HTTP/0.9 one.
send_header(h, keyword, value) ==
    LET h1 == IF h.request_version # "HTTP/0.9"
              THEN [h EXCEPT !.hdrbuf = Append(@, Line(keyword, value))]
              ELSE h
    IN IF keyword = "Connection" /\ value = "close"
       THEN [h1 EXCEPT !.close_connection = TRUE]
       ELSE h1

\* BaseHTTPRequestHandler.send_response
send_response(h, code) ==
    send_header(send_header(send_response_only(h, code),
                            "Server", "SimpleHTTP"), "Date", "now")

\* BaseHTTPRequestHandler.end_headers, as called on line 10: the blank line
\* is added and the buffer written to the socket in one write, unless the
\* request is an HTTP/0.9 one.
super_end_headers(h) ==
    IF h.request_version # "HTTP/0.9"
    THEN [h EXCEPT !.wire = Append(@, HeadItem(h.hdrbuf)), !.hdrbuf = <<>>]
    ELSE h

\* Variant: the parent's end_headers is called first, the headers added after.
EndHeadersStepsSuperFirst == <<"super", "coop", "coep">>

\* The body of CrossOriginIsolatedHandler.end_headers, statement by statement.
EndHeadersSteps == <<"coop", "coep", "super">>

\* Variant: only Cross-Origin-Opener-Policy is added.
EndHeadersStmtOneHeader(h, stmt) ==
    CASE stmt = "coop"  -> send_header(h, COOP, "same-origin")
      [] stmt = "coep"  -> h
      [] stmt = "super" -> super_end_headers(h)

\* One statement of CrossOriginIsolatedHandler.end_headers.
EndHeadersStmt(h, stmt) ==
    CASE stmt = "coop"  -> send_header(h, COOP, "same-origin")
      [] stmt = "coep"  -> send_header(h, COEP, "require-corp")
      [] stmt = "super" -> super_end_headers(h)

\* A call of self.end_headers(): control enters the override; what is written
\* after the headers (the caller's body, if any) is remembered in pending.
CallEndHeaders(h, body) ==
    [h EXCEPT !.pc = "end_headers", !.ehpos = 1, !.pending = body]

\* The handler returns without sending anything.
NoResponse(h) == [h EXCEPT !.pc = "finish"]

ErrorBody(code) == "error " \o ToString(code)

\* Variant: the error path finishes its headers with the parent's
\* end_headers, not the override.
send_error_bypass(h, code) ==
    LET h1 == send_header(send_response(h, code), "Connection", "close")
        h2 == send_header(send_header(h1, "Content-Type", "text/html;charset=utf-8"),
                          "Content-Length", "len " \o ErrorBody(code))
    IN [h2 EXCEPT !.pc = "end_headers", !.ehpos = Len(EndHeadersSteps),
                  !.pending = IF h.command # "HEAD" THEN ErrorBody(code) ELSE ""]

\* BaseHTTPRequestHandler.send_error
send_error(h, code) ==
    LET h1 == send_header(send_response(h, code), "Connection", "close")
        hasBody == code >= 200 /\ code \notin {204, 205, 304}
        h2 == IF hasBody
              THEN send_header(send_header(h1, "Content-Type", "text/html;charset=utf-8"),
                               "Content-Length", "len " \o ErrorBody(code))
              ELSE h1
    IN CallEndHeaders(h2, IF h.command # "HEAD" /\ hasBody THEN ErrorBody(code) ELSE "")

----------------------------------------------------------------------------
(* Path translation and file serving (SimpleHTTPRequestHandler).           *)

\* posixpath.normpath on the request path: "." is dropped, "name/.." is
\* collapsed, ".." at the top of an absolute path is dropped and at the top of
\* a relative path is kept.
RECURSIVE NormStack(_, _, _)
NormStack(stack, comps, abs) ==
    IF comps = <<>> THEN stack
    ELSE LET w == Head(comps)
             nxt == IF w = "." THEN stack
                    ELSE IF w # ".." THEN Append(stack, w)
                    ELSE IF stack # <<>> /\ stack[Len(stack)] # ".." THEN Front(stack)
                    ELSE IF abs THEN stack
                    ELSE Append(stack, w)
         IN NormStack(nxt, Tail(comps), abs)

normpath(path) == NormStack(<<>>, path.comps, path.abs)

\* Variant: no word is ignored.
KeepEveryWord(word) == TRUE

\* The loop of translate_path: a word that is "." or ".." is ignored.
KeepWord(word) == word \notin {".", ".."}

\* SimpleHTTPRequestHandler.translate_path: the name under self.directory
\* (the working directory) that the request path stands for.
translate_path(path) ==
    [comps |-> Root \o SelectSeq(normpath(path), KeepWord), slash |-> path.slash]

HasIndex(comps, symlinks) == IsFile(comps \o <<"index.html">>, symlinks)

Listing(comps) == "listing of " \o comps[Len(comps)]

\* Variant: the headers are sent but the file is never copied.
SendOkHeadOnly(h, ctype, data) ==
    CallEndHeaders(
        send_header(send_header(send_header(send_response(h, 200),
            "Content-type", ctype), "Content-Length", "len " \o data),
            "Last-Modified", "mtime"), "")

\* The 200 response of send_head and list_directory, up to its end_headers.
SendOk(h, ctype, data) ==
    LET h1 == send_response(h, 200)
        h2 == send_header(h1, "Content-type", ctype)
        h3 == send_header(h2, "Content-Length", "len " \o data)
        h4 == IF ctype = "listing" THEN h3
              ELSE send_header(h3, "Last-Modified", "mtime")
    IN CallEndHeaders(h4, IF h.command = "HEAD" THEN "" ELSE data)

\* SimpleHTTPRequestHandler.send_head followed by the copy of do_GET (or the
\* close of do_HEAD), up to the call of end_headers.
send_head(h, path, ims, symlinks) ==
    LET fspath == translate_path(path)
        isdir  == IsDir(fspath, symlinks)
        index  == [comps |-> fspath.comps \o <<"index.html">>, slash |-> FALSE]
        target == IF isdir /\ HasIndex(fspath.comps, symlinks) THEN index ELSE fspath
    IN IF isdir /\ ~path.slash
       THEN CallEndHeaders(
                send_header(send_header(send_response(h, 301), "Location", "path/"),
                            "Content-Length", "0"), "")
       ELSE IF isdir /\ ~HasIndex(fspath.comps, symlinks)
       THEN SendOk(h, "listing", Listing(fspath.comps))
       ELSE IF target.slash \/ ~CanOpen(target, symlinks)
       THEN send_error(h, 404)
       ELSE IF ims
       THEN CallEndHeaders(send_response(h, 304), "")
       ELSE SendOk(h, "guessed", ReadFile(target.comps, symlinks))

\* The request-line versions parse_request accepts as HTTP/1.x.
Http1Versions == { "HTTP/1.0", "HTTP/1.1" }

\* BaseHTTPRequestHandler.parse_request and the dispatch of
\* handle_one_request to do_GET / do_HEAD, up to the call of end_headers.
parse_and_dispatch(h0, words, ims, symlinks) ==
    LET n == Len(words)
        h == [h0 EXCEPT !.command = "None", !.request_version = "HTTP/0.9",
                        !.close_connection = TRUE]
        version == words[n]
        hv == [h EXCEPT !.request_version = IF n >= 3 THEN version ELSE @]
        hc == [hv EXCEPT !.command = words[1]]
    IN IF n = 0 THEN NoResponse(h)
       ELSE IF n >= 3 /\ version = "HTTP/2.0" THEN send_error(h, 505)
       ELSE IF n >= 3 /\ version \notin Http1Versions THEN send_error(h, 400)
       ELSE IF ~(2 <= n /\ n <= 3) THEN send_error(hv, 400)
       ELSE IF n = 2 /\ words[1] # "GET" THEN send_error(hv, 400)
       ELSE IF words[1] \notin {"GET", "HEAD"} THEN send_error(hc, 501)
       ELSE send_head(hc, words[2], ims, symlinks)

\* BaseHTTPRequestHandler.handle_one_request, from reading the request line
\* to the call of end_headers (or to its return when nothing is sent).
handle_one_request(h, req, symlinks) ==
    LET hr == [h EXCEPT !.req = req]
    IN CASE req.kind = "toolong" ->
              send_error([hr EXCEPT !.request_version = "", !.command = ""], 414)
         [] req.kind = "eof" -> NoResponse(hr)
         [] OTHER -> parse_and_dispatch(hr, req.words, req.ims, symlinks)

----------------------------------------------------------------------------
(* The process: module-level code of server.py and the server loop.        *)

VARIABLES
    bindOutcome,  \* environment: what bind(("", PORT)) will do
    symlinks,     \* environment: the serving root holds a symbolic link
    proc,         \* "init", "serving" or "exited"
    exitCode,     \* exit status once exited, -1 before
    listening,    \* the listening socket is open
    stdout,       \* lines printed
    stderr,       \* what was reported on the error stream
    signalled,    \* the process was terminated from outside
    conn          \* the connections and their handlers

vars == <<bindOutcome, symlinks, proc, exitCode, listening, stdout, stderr,
          signalled, conn>>

env == <<bindOutcome, symlinks>>

Init ==
    /\ bindOutcome \in {"ok", "in_use", "denied"}
    /\ symlinks \in BOOLEAN
    /\ proc = "init"
    /\ exitCode = -1
    /\ listening = FALSE
    /\ stdout = <<>>
    /\ stderr = <<>>
    /\ signalled = FALSE
    /\ conn = [c \in Conns |-> FreshConn]

Busy == \E c \in Conns : conn[c].st = "handling"

\* Lines 12-15 when the bind succeeds: the socket listens, the two lines are
\* printed and serve_forever is entered.
StartupOk ==
    /\ listening' = TRUE
    /\ stdout' = <<"Serving at http://localhost:" \o ToString(PORT),
                   "Cross-Origin Isolation headers are enabled.">>
    /\ proc' = "serving"
    /\ UNCHANGED <<exitCode, stderr>>

\* Variant: the bind error is swallowed and the process ends quietly.
StartupFailsSilently ==
    /\ proc' = "exited"
    /\ exitCode' = 0
    /\ UNCHANGED <<listening, stdout, stderr>>

\* Line 12 when the bind raises OSError: nothing catches it, the interpreter
\* prints the traceback and exits with status 1.
StartupFails ==
    /\ stderr' = <<"OSError " \o bindOutcome>>
    /\ proc' = "exited"
    /\ exitCode' = 1
    /\ UNCHANGED <<listening, stdout>>

Startup ==
    /\ proc = "init"
    /\ IF bindOutcome = "ok" THEN StartupOk ELSE StartupFails
    /\ UNCHANGED <<env, signalled, conn>>

\* A client connects; the kernel queues the connection on the listening socket.
Connect(c) ==
    /\ listening
    /\ conn[c].st = "none"
    /\ \A d \in Conns : d < c => conn[d].st # "none"
    /\ conn' = [conn EXCEPT ![c].st = "queued"]
    /\ UNCHANGED <<env, proc, exitCode, listening, stdout, stderr, signalled>>

\* Variant: a threading server, whose loop goes on while handlers run.
LoopAlwaysReady == TRUE

\* serve_forever is between two requests: TCPServer handles each request in
\* the loop's own thread, so the loop is not running while a handler is.
LoopIsIdle == ~Busy

\* serve_forever / _handle_request_noblock: the next queued connection is
\* accepted and its handler constructed.
Accept(c) ==
    /\ proc = "serving"
    /\ LoopIsIdle
    /\ conn[c].st = "queued"
    /\ \A d \in Conns : d < c => conn[d].st # "queued"
    /\ conn' = [conn EXCEPT ![c].st = "handling", ![c].pc = "read"]
    /\ UNCHANGED <<env, proc, exitCode, listening, stdout, stderr, signalled>>

\* The handler reads the request and runs up to its call of end_headers.
Receive(c) ==
    /\ proc = "serving"
    /\ conn[c].st = "handling" /\ conn[c].pc = "read"
    /\ \E req \in Requests :
         conn' = [conn EXCEPT ![c] = handle_one_request(@, req, symlinks)]
    /\ UNCHANGED <<env, proc, exitCode, listening, stdout, stderr, signalled>>

\* The handler executes the next statement of end_headers (lines 8-10).
EndHeadersStep(c) ==
    /\ proc = "serving"
    /\ conn[c].st = "handling" /\ conn[c].pc = "end_headers"
    /\ LET h  == conn[c]
           h1 == EndHeadersStmt(h, EndHeadersSteps[h.ehpos])
       IN conn' = [conn EXCEPT ![c] =
                     IF h.ehpos < Len(EndHeadersSteps)
                     THEN [h1 EXCEPT !.ehpos = @ + 1]
                     ELSE [h1 EXCEPT !.ehpos = 0, !.pc = "body"]]
    /\ UNCHANGED <<env, proc, exitCode, listening, stdout, stderr, signalled>>

\* After end_headers: the body, if the caller has one, is written.
WriteBody(c) ==
    /\ proc = "serving"
    /\ conn[c].st = "handling" /\ conn[c].pc = "body"
    /\ LET h == conn[c]
       IN conn' = [conn EXCEPT ![c] =
                     [h EXCEPT !.wire = IF h.pending # ""
                                        THEN Append(@, BodyItem(h.pending))
                                        ELSE @,
                               !.pending = "", !.pc = "finish"]]
    /\ UNCHANGED <<env, proc, exitCode, listening, stdout, stderr, signalled>>

\* Variant: handle_request in place of serve_forever: one request, then exit.
FinishAndExit(c) ==
    /\ proc = "serving"
    /\ conn[c].st = "handling" /\ conn[c].pc = "finish"
    /\ conn' = [conn EXCEPT ![c].st = "closed", ![c].pc = "-"]
    /\ proc' = "exited"
    /\ exitCode' = 0
    /\ listening' = FALSE
    /\ UNCHANGED <<env, stdout, stderr, signalled>>

\* handle() returns (close_connection is set), shutdown_request closes the
\* connection and control is back in serve_forever.
Finish(c) ==
    /\ proc = "serving"
    /\ conn[c].st = "handling" /\ conn[c].pc = "finish"
    /\ conn' = [conn EXCEPT ![c].st = "closed", ![c].pc = "-"]
    /\ UNCHANGED <<env, proc, exitCode, listening, stdout, stderr, signalled>>

\* The handler's next statement writes to the socket.
AboutToWrite(h) ==
    \/ /\ h.pc = "end_headers"
       /\ EndHeadersSteps[h.ehpos] = "super"
       /\ h.request_version # "HTTP/0.9"
    \/ h.pc = "body" /\ h.pending # ""

\* Variant: the exception of a handler is not caught by the loop.
ClientAbortFatal(c) ==
    /\ proc = "serving"
    /\ conn[c].st = "handling" /\ AboutToWrite(conn[c])
    /\ conn' = [conn EXCEPT ![c] = BrokenConn]
    /\ stderr' = Append(stderr, "Traceback")
    /\ proc' = "exited"
    /\ exitCode' = 1
    /\ listening' = FALSE
    /\ UNCHANGED <<env, stdout, signalled>>

\* The client resets the connection while the handler is about to write: the
\* write raises, _handle_request_noblock catches the exception, handle_error
\* prints it and shutdown_request closes the connection.
ClientAbort(c) ==
    /\ proc = "serving"
    /\ conn[c].st = "handling" /\ AboutToWrite(conn[c])
    /\ conn' = [conn EXCEPT ![c] = BrokenConn]
    /\ stderr' = Append(stderr, "Exception occurred during processing of request")
    /\ UNCHANGED <<env, proc, exitCode, listening, stdout, signalled>>

\* The process is terminated from outside while serving; its sockets close.
Terminate ==
    /\ proc = "serving"
    /\ proc' = "exited"
    /\ exitCode' = 130
    /\ signalled' = TRUE
    /\ listening' = FALSE
    /\ conn' = [c \in Conns |->
                  IF conn[c].st \in {"queued", "handling"}
                  THEN BrokenConn
                  ELSE conn[c]]
    /\ UNCHANGED <<env, stdout, stderr>>

Next ==
    \/ Startup
    \/ Terminate
    \/ \E c \in Conns : Connect(c)
    \/ \E c \in Conns : Accept(c)
    \/ \E c \in Conns : Receive(c)
    \/ \E c \in Conns : EndHeadersStep(c)
    \/ \E c \in Conns : WriteBody(c)
    \/ \E c \in Conns : Finish(c)
    \/ \E c \in Conns : ClientAbort(c)

Spec == Init /\ [][Next]_vars

----------------------------------------------------------------------------
(* What a client sees of a connection.                                     *)

HasHeader(lines, name, value) ==
    \E i \in 1..Len(lines) : lines[i] = Line(name, value)

Count(lines, name) == Cardinality({ i \in 1..Len(lines) : lines[i].name = name })

\* Both isolation headers, each once, with exactly the specified values.
Isolated(lines) ==
    /\ HasHeader(lines, COOP, "same-origin") /\ Count(lines, COOP) = 1
    /\ HasHeader(lines, COEP, "require-corp") /\ Count(lines, COEP) = 1

Headed(w) == w # <<>> /\ w[1].kind = "head"

StatusOf(w) ==
    IF Headed(w) /\ w[1].lines # <<>> /\ w[1].lines[1].name = ":status"
    THEN w[1].lines[1].value ELSE "none"

\* The connection was handled to its end.
Done(c) == conn[c].st = "closed" /\ ~conn[c].aborted

\* A request line of two or three words whose second word is a path.
HasPath(req) == req.kind = "line" /\ Len(req.words) \in {2, 3}

\* A request line that ends in HTTP/1.0 or HTTP/1.1.
IsHttp1(req) ==
    /\ req.kind = "line" /\ Len(req.words) >= 3
    /\ req.words[Len(req.words)] \in Http1Versions

\* A path of plain names below the root: no "." or "..", leading "/".
PlainPath(path) ==
    path.abs /\ \A i \in 1..Len(path.comps) : path.comps[i] \notin {".", ".."}

\* The path names a regular file kept under the serving root.
NamesFile(path) ==
    PlainPath(path) /\ ~path.slash /\ (Root \o path.comps) \in DOMAIN Files

\* The path names nothing under the serving root.
NamesNothing(path) ==
    /\ PlainPath(path)
    /\ (Root \o path.comps) \notin (DOMAIN Files \cup Dirs \cup DOMAIN Links(symlinks))

----------------------------------------------------------------------------
\* C1 (as stated): every response the server produces starts with a header
\* block that holds Cross-Origin-Opener-Policy: same-origin and
\* Cross-Origin-Embedder-Policy: require-corp.
C1_EveryResponseIsolated ==
    \A c \in Conns :
        conn[c].wire # <<>> =>
            Headed(conn[c].wire) /\ Isolated(conn[c].wire[1].lines)

\* C1 (amended): every response that has a status line and header block holds
\* both isolation headers, each once, with exactly the specified values; and
\* every response to a request line ending in HTTP/1.0 or HTTP/1.1, and the
\* response to an over-long request line, has such a header block.
C1_HeadedResponsesIsolated ==
    \A c \in Conns :
        /\ \A i \in 1..Len(conn[c].wire) :
               conn[c].wire[i].kind = "head" => Isolated(conn[c].wire[i].lines)
        /\ (conn[c].wire # <<>> /\ (IsHttp1(conn[c].req) \/ conn[c].req.kind = "toolong"))
               => Headed(conn[c].wire)

\* A redirect and an error response, each with both isolation headers.
C1_Witness ==
    \E c, d \in Conns :
        /\ Done(c) /\ StatusOf(conn[c].wire) = "301" /\ Isolated(conn[c].wire[1].lines)
        /\ Done(d) /\ StatusOf(conn[d].wire) = "501" /\ Isolated(conn[d].wire[1].lines)

----------------------------------------------------------------------------
\* C2: within a response, a step that writes the status line and headers to
\* the socket is the last statement of end_headers, nothing of that response
\* was written before it, and the pending header set it writes already holds
\* both isolation headers; they are added inside end_headers, not before.
C2_Step(c) ==
    LET h == conn[c]
        h2 == conn'[c]
    IN /\ (Len(h2.wire) > Len(h.wire) /\ h2.wire[Len(h2.wire)].kind = "head")
            => /\ h.pc = "end_headers"
               /\ h.wire = <<>>
               /\ Isolated(h.hdrbuf)
               /\ h2.wire = <<HeadItem(h.hdrbuf)>>
       /\ (Count(h2.hdrbuf, COOP) + Count(h2.hdrbuf, COEP)
             > Count(h.hdrbuf, COOP) + Count(h.hdrbuf, COEP))
            => h.pc = "end_headers"

\* C2: every step of every connection writes headers only after both
\* isolation headers were added to the pending header set.
C2_IsolationBeforeWrite == [][\A c \in Conns : C2_Step(c)]_vars

\* Both isolation headers are pending and no byte has been written yet.
C2_Witness ==
    \E c \in Conns :
        /\ conn[c].st = "handling" /\ conn[c].pc = "end_headers"
        /\ Isolated(conn[c].hdrbuf) /\ conn[c].wire = <<>>

----------------------------------------------------------------------------
IsPrefix(s, t) == Len(s) <= Len(t) /\ SubSeq(t, 1, Len(s)) = s

\* C3: injection is additive.  No step removes or changes a header that is
\* pending: the pending lines stay a prefix of the pending lines, until they
\* are written to the socket exactly as they are (or the connection dies).
\* So what is written is the delegate's lines, unchanged and in order,
\* followed by the two isolation headers, which nothing overrides.
C3_Step(c) ==
    LET h == conn[c]
        h2 == conn'[c]
    IN \/ /\ IsPrefix(h.hdrbuf, h2.hdrbuf)
          /\ IsPrefix(h.wire, h2.wire)
          /\ \A i \in (Len(h.wire) + 1)..Len(h2.wire) : h2.wire[i].kind = "body"
       \/ h2.hdrbuf = <<>> /\ h2.wire = Append(h.wire, HeadItem(h.hdrbuf))
       \/ h2.aborted

C3_Written(c) ==
    \A i \in 1..Len(conn[c].wire) :
        LET lines == conn[c].wire[i].lines
            n == Len(lines)
        IN conn[c].wire[i].kind = "head" =>
             /\ n >= 5
             /\ lines[1].name = ":status"
             /\ lines[2] = Line("Server", "SimpleHTTP")
             /\ lines[3] = Line("Date", "now")
             /\ lines[n - 1] = Line(COOP, "same-origin")
             /\ lines[n] = Line(COEP, "require-corp")
             /\ \A j \in 1..(n - 2) : lines[j].name \notin {COOP, COEP}
             /\ lines[1].value = "200" =>
                  \E j \in 4..(n - 2) : lines[j].name = "Content-Length"

\* C3: what is written keeps every delegate header, followed by the two
\* isolation headers, and every step keeps what is pending.
C3_Additive ==
    /\ [](\A c \in Conns : C3_Written(c))
    /\ [][\A c \in Conns : C3_Step(c)]_vars

\* A 200 response with Content-type, Content-Length and Last-Modified as the
\* delegate set them, and both isolation headers.
C3_Witness ==
    \E c \in Conns :
        /\ Done(c) /\ StatusOf(conn[c].wire) = "200"
        /\ HasHeader(conn[c].wire[1].lines, "Content-type", "guessed")
        /\ HasHeader(conn[c].wire[1].lines, "Content-Length", "len <h1>hi</h1>")
        /\ HasHeader(conn[c].wire[1].lines, "Last-Modified", "mtime")
        /\ Isolated(conn[c].wire[1].lines)

----------------------------------------------------------------------------
\* C4: when the bind fails the process reports it, ends with a non-zero
\* status, never listens and never accepts or serves a connection.
C4_BindFailureFatal ==
    bindOutcome # "ok" =>
        /\ proc \in {"init", "exited"}
        /\ ~listening
        /\ stdout = <<>>
        /\ \A c \in Conns : conn[c] = FreshConn
        /\ proc = "exited" => (exitCode > 0 /\ stderr # <<>> /\ ~signalled)
        /\ proc = "init" => ENABLED Startup

\* The port was in use and the process has exited with status 1.
C4_Witness ==
    bindOutcome = "in_use" /\ proc = "exited" /\ exitCode = 1 /\ stderr # <<>>

----------------------------------------------------------------------------
\* The request fails: nothing parsable was sent, or the path names nothing.
Failing(req) ==
    \/ req.kind \in {"eof", "toolong"}
    \/ req.kind = "line" /\ ~HasPath(req)
    \/ req.kind = "line" /\ Len(req.words) = 3 /\ ~IsHttp1(req)
    \/ HasPath(req) /\ NamesNothing(req.words[2])

ErrorCodes == { 400, 404, 414, 501, 505 }

\* Nothing parsable arrived: the client closed without sending, or sent a
\* blank line.
NothingSent(req) == req.kind = "eof" \/ (req.kind = "line" /\ req.words = <<>>)

\* The failure was reported: an error status line, an error page (the
\* header-less form), or, when nothing parsable arrived, the connection
\* closed with nothing sent.
ErrorReported(req, w) ==
    IF NothingSent(req) THEN w = <<>>
    ELSE \/ StatusOf(w) \in { ToString(code) : code \in ErrorCodes }
         \/ /\ w # <<>> /\ w[1].kind = "body"
            /\ w[1].data \in { ErrorBody(code) : code \in ErrorCodes }

----------------------------------------------------------------------------
\* A GET whose path names a regular file under the serving root.
GetOfFile(req) ==
    HasPath(req) /\ req.words[1] = "GET" /\ NamesFile(req.words[2])

\* Status 200, both isolation headers, and the file's bytes as the body.
ServedFile(w, path) ==
    /\ Len(w) = 2
    /\ StatusOf(w) = "200" /\ Isolated(w[1].lines)
    /\ w[2] = BodyItem(Files[Root \o path.comps])

\* C6 (as stated): a GET for a path that names an existing file under the
\* serving root returns 200, the file's bytes and both isolation headers.
C6_GetReturnsFile ==
    \A c \in Conns :
        (Done(c) /\ GetOfFile(conn[c].req)) => ServedFile(conn[c].wire, conn[c].req.words[2])

\* C6 (amended): a GET whose request line ends in HTTP/1.0 or HTTP/1.1, not
\* made conditional on an If-Modified-Since time the file has not changed
\* since, for a path that names an existing file under the serving root,
\* returns 200, the file's bytes unmodified and both isolation headers.
C6_PlainGetReturnsFile ==
    \A c \in Conns :
        (Done(c) /\ GetOfFile(conn[c].req) /\ IsHttp1(conn[c].req) /\ ~conn[c].req.ims)
            => ServedFile(conn[c].wire, conn[c].req.words[2])

\* GET /index.html HTTP/1.1 answered with 200 and <h1>hi</h1>.
C6_Witness ==
    \E c \in Conns :
        /\ Done(c) /\ conn[c].req = Req("line", <<"GET", PIndex, "HTTP/1.1">>, FALSE)
        /\ StatusOf(conn[c].wire) = "200"
        /\ conn[c].wire[2].data = "<h1>hi</h1>"

----------------------------------------------------------------------------
\* C7 (as stated): a request for a path that names nothing under the serving
\* root returns 404, with both isolation headers.
C7_MissingIs404 ==
    \A c \in Conns :
        (Done(c) /\ HasPath(conn[c].req) /\ NamesNothing(conn[c].req.words[2]))
            => (StatusOf(conn[c].wire) = "404" /\ Isolated(conn[c].wire[1].lines))

\* C7 (amended): a GET or HEAD whose request line ends in HTTP/1.0 or
\* HTTP/1.1, for a path that names nothing under the serving root, returns
\* 404, with both isolation headers.
C7_GetOrHeadMissingIs404 ==
    \A c \in Conns :
        (Done(c) /\ HasPath(conn[c].req) /\ NamesNothing(conn[c].req.words[2])
           /\ IsHttp1(conn[c].req) /\ conn[c].req.words[1] \in {"GET", "HEAD"})
            => (StatusOf(conn[c].wire) = "404" /\ Isolated(conn[c].wire[1].lines))

\* HEAD /missing HTTP/1.0 answered with 404, both isolation headers, no body.
C7_Witness ==
    \E c \in Conns :
        /\ Done(c) /\ conn[c].req = Req("line", <<"HEAD", PMissing, "HTTP/1.0">>, FALSE)
        /\ StatusOf(conn[c].wire) = "404" /\ Isolated(conn[c].wire[1].lines)
        /\ Len(conn[c].wire) = 1

----------------------------------------------------------------------------
\* The bytes of the files kept outside the serving root.
OutsideBytes ==
    { Files[f] : f \in { g \in DOMAIN Files : ~IsPrefix(Root, g) } }

NoOutsideBytes(c) ==
    \A i \in 1..Len(conn[c].wire) :
        conn[c].wire[i].kind = "body" => conn[c].wire[i].data \notin OutsideBytes

\* C8 (as stated): whatever the request path, no response body is the
\* content of a file located outside the serving root.
C8_NeverOutsideRoot == \A c \in Conns : NoOutsideBytes(c)

\* C8 (amended): when the serving root holds no symbolic link that leads
\* outside it, then whatever the request path, traversal sequences included,
\* no response body is the content of a file outside the serving root.
C8_NoTraversalOutsideRoot == ~symlinks => \A c \in Conns : NoOutsideBytes(c)

\* ../../etc/passwd and /../../etc/passwd were requested and answered 404.
C8_Witness ==
    /\ ~symlinks
    /\ \E c, d \in Conns :
        /\ Done(c) /\ HasPath(conn[c].req) /\ conn[c].req.words[2] = PTravRel
        /\ StatusOf(conn[c].wire) = "404"
        /\ Done(d) /\ HasPath(conn[d].req) /\ conn[d].req.words[2] = PTravAbs
        /\ StatusOf(conn[d].wire) = "404"

----------------------------------------------------------------------------
\* C9: once bound, the process leaves its serving loop, and the listening
\* socket closes, only in a step that terminates the process from outside;
\* while it serves, the socket is open.
C9_Step ==
    /\ (proc = "serving" /\ proc' # "serving") => (signalled' /\ ~signalled)
    /\ (listening /\ ~listening') => (signalled' /\ ~signalled)
    /\ proc' = "serving" => listening'

\* C9: every step that ends the serving loop or closes the listening socket
\* is a termination from outside.
C9_RunsUntilTerminated == [][C9_Step]_vars

\* Every connection of the run was handled (one of them a failure or a
\* broken connection) and the process is still serving.
C9_Witness ==
    /\ proc = "serving" /\ listening
    /\ \A c \in Conns : conn[c].st = "closed"
    /\ \E c \in Conns : conn[c].aborted \/ Failing(conn[c].req)

----------------------------------------------------------------------------
\* C10: at most one connection is being handled; connections are taken in
\* arrival order, each only after the handler of the one before it has
\* finished, so nothing is sent on a later connection while an earlier one
\* is in progress.
C10_OneAtATime ==
    \A c, d \in Conns :
        /\ (c # d /\ conn[c].st = "handling") => conn[d].st # "handling"
        /\ (c < d /\ conn[c].st \in {"queued", "handling"})
             => (conn[d].st \in {"none", "queued"} /\ conn[d].wire = <<>>)

\* One connection is halfway through its response while another waits.
C10_Witness ==
    \E c, d \in Conns :
        /\ conn[c].st = "handling" /\ conn[c].pc = "body" /\ conn[c].wire # <<>>
        /\ conn[d].st = "queued"

====
